---------------------------- MODULE Spec2Model ----------------------------
(***************************************************************************)
(* The notification-to-fanout bridge of the realtime server                *)
(* (src/src/realtime-server.ts, class RealtimeServer): the PostgreSQL      *)
(* LISTEN connection with its retry and reconnect paths, the notification  *)
(* handler (decode, route, fan out), the socket handlers (connection,      *)
(* subscribe, unsubscribe, disconnect) and shutdown.                       *)
(***************************************************************************)
EXTENDS Naturals, Sequences, FiniteSets

\* ------------------------------------------------------------------ bounds
\* Connection-error events the event source may raise in one behaviour.
MaxErrors == 2
\* Times the event source may become unreachable in one behaviour.
MaxOutages == 1
\* Notifications delivered to the handler in one behaviour.
MaxEvents == 2
\* Client objects one behaviour may construct (the constructor's and one per
\* resumed reconnectPg).
MaxClients == 4
\* Calls of close() awaiting end() at one time.
MaxPendingCloses == 2

\* ------------------------------------------------------- JavaScript values
\* A value is a record tagged with its typeof: undefined, null, a string, a
\* number, or an object carrying its own properties in f.
Undefined == [t |-> "undefined"]
Null == [t |-> "null"]
Str(s) == [t |-> "string", s |-> s]
Num(n) == [t |-> "number", n |-> n]
Obj(f) == [t |-> "object", f |-> f]
EmptyObj == Obj([k \in {} |-> Undefined])

\* ToBoolean, as `if (x)` and `x || y` apply it.
Truthy(v) ==
  CASE v.t = "undefined" -> FALSE
    [] v.t = "null" -> FALSE
    [] v.t = "string" -> v.s # ""
    [] v.t = "number" -> v.n # 0
    [] OTHER -> TRUE

\* Reading a property of undefined or null throws a TypeError.
Nullish(v) == v.t \in {"undefined", "null"}

\* v.k for a non-nullish v: an own property, or undefined.
Prop(v, k) ==
  IF v.t = "object" /\ k \in DOMAIN v.f THEN v.f[k] ELSE Undefined

\* a || b
OrElse(a, b) == IF Truthy(a) THEN a ELSE b

Digits == <<"0", "1", "2", "3", "4", "5", "6", "7", "8", "9">>

RECURSIVE NatToString(_)
NatToString(n) ==
  IF n < 10 THEN Digits[n + 1]
  ELSE NatToString(n \div 10) \o Digits[(n % 10) + 1]

\* The string a template literal `${v}` inserts.
ToString(v) ==
  CASE v.t = "undefined" -> "undefined"
    [] v.t = "null" -> "null"
    [] v.t = "string" -> v.s
    [] v.t = "number" -> NatToString(v.n)
    [] OTHER -> "[object Object]"

\* ------------------------------------------------------- payloads on the wire
P_Empty == ""
P_Malformed == "not json"
P_NullLiteral == "null"
P_StepUpdate ==
  "{\"operation\":\"UPDATE\",\"data\":{\"conversionId\":\"c1\",\"id\":\"s1\",\"status\":\"done\"}}"
P_Insert == "{\"operation\":\"INSERT\",\"data\":{\"conversionId\":\"c2\",\"id\":\"m1\"}}"
P_Delete == "{\"operation\":\"DELETE\",\"data\":{\"id\":\"m2\"}}"
P_ZeroId == "{\"operation\":\"UPDATE\",\"data\":{\"conversionId\":0,\"id\":\"s2\"}}"
P_BlankId == "{\"operation\":\"INSERT\",\"data\":{\"conversionId\":\"\",\"id\":\"m3\"}}"
P_NumId == "{\"operation\":\"UPDATE\",\"data\":{\"conversionId\":42,\"id\":\"s3\"}}"
P_NoData == "{\"operation\":\"INSERT\"}"
P_Table == "{\"operation\":\"UPDATE\",\"table\":\"Widget\",\"data\":{\"id\":\"w1\"}}"
P_NoOperation == "{\"data\":{\"id\":\"x1\"}}"
P_Truncate == "{\"operation\":\"TRUNCATE\",\"data\":{\"id\":\"x2\"}}"
P_StaticId == "{\"operation\":\"UPDATE\",\"data\":{\"conversionId\":\"steps\",\"id\":\"s4\"}}"

RawPayloads ==
  {P_Empty, P_Malformed, P_NullLiteral, P_StepUpdate, P_Insert, P_Delete,
   P_ZeroId, P_BlankId, P_NumId, P_NoData, P_Table, P_NoOperation, P_Truncate,
   P_StaticId}

\* JSON.parse on the texts above: the value, or a SyntaxError.
JSONParse(text) ==
  CASE text = "{}" -> [ok |-> TRUE, val |-> EmptyObj]
    [] text = P_NullLiteral -> [ok |-> TRUE, val |-> Null]
    [] text = P_StepUpdate ->
         [ok |-> TRUE,
          val |-> Obj([operation |-> Str("UPDATE"),
                       data |-> Obj([conversionId |-> Str("c1"), id |-> Str("s1"),
                                     status |-> Str("done")])])]
    [] text = P_Insert ->
         [ok |-> TRUE,
          val |-> Obj([operation |-> Str("INSERT"),
                       data |-> Obj([conversionId |-> Str("c2"), id |-> Str("m1")])])]
    [] text = P_Delete ->
         [ok |-> TRUE,
          val |-> Obj([operation |-> Str("DELETE"), data |-> Obj([id |-> Str("m2")])])]
    [] text = P_ZeroId ->
         [ok |-> TRUE,
          val |-> Obj([operation |-> Str("UPDATE"),
                       data |-> Obj([conversionId |-> Num(0), id |-> Str("s2")])])]
    [] text = P_BlankId ->
         [ok |-> TRUE,
          val |-> Obj([operation |-> Str("INSERT"),
                       data |-> Obj([conversionId |-> Str(""), id |-> Str("m3")])])]
    [] text = P_NumId ->
         [ok |-> TRUE,
          val |-> Obj([operation |-> Str("UPDATE"),
                       data |-> Obj([conversionId |-> Num(42), id |-> Str("s3")])])]
    [] text = P_NoData -> [ok |-> TRUE, val |-> Obj([operation |-> Str("INSERT")])]
    [] text = P_Table ->
         [ok |-> TRUE,
          val |-> Obj([operation |-> Str("UPDATE"), table |-> Str("Widget"),
                       data |-> Obj([id |-> Str("w1")])])]
    [] text = P_NoOperation ->
         [ok |-> TRUE, val |-> Obj([data |-> Obj([id |-> Str("x1")])])]
    [] text = P_Truncate ->
         [ok |-> TRUE,
          val |-> Obj([operation |-> Str("TRUNCATE"), data |-> Obj([id |-> Str("x2")])])]
    [] text = P_StaticId ->
         [ok |-> TRUE,
          val |-> Obj([operation |-> Str("UPDATE"),
                       data |-> Obj([conversionId |-> Str("steps"), id |-> Str("s4")])])]
    [] OTHER -> [ok |-> FALSE, val |-> Undefined]

\* ----------------------------------------------------------------- channels
ListenChannels ==
  <<"conversion_message_changes", "conversion_changes", "conversion_step_changes",
    "test_channel">>
\* Channels outside the compiled-in list, served by the default branch.
OtherChannels == {"custom_channel", "audit_events"}
Channels == {ListenChannels[k] : k \in 1..Len(ListenChannels)} \cup OtherChannels

\* ------------------------------------------------------------------ fanout
\* this.io.to(room).emit(ev, msg); all = TRUE is this.io.emit(ev, msg).
EmitTo(room, msg) == [all |-> FALSE, room |-> room, ev |-> "postgres_changes", msg |-> msg]
EmitAll(ev, msg) == [all |-> TRUE, room |-> "", ev |-> ev, msg |-> msg]

\* The postgres_changes message of the three entity handlers.
ChangeMsg(operation, table, data) ==
  [event |-> operation, schema |-> Str("public"), table |-> Str(table),
   new |-> IF operation = Str("DELETE") THEN Null ELSE data,
   old |-> IF operation = Str("INSERT") THEN Null ELSE data,
   channel |-> Undefined]

\* A handler's outcome: the emits it made, in order, and whether it threw.
Done(emits) == [emits |-> emits, threw |-> FALSE]
Threw(emits) == [emits |-> emits, threw |-> TRUE]

\* A static topic, then the derived topic when data.conversionId is truthy;
\* reading data.conversionId throws when data is undefined or null.
WithDerived(static, table, operation, data) ==
  LET first == EmitTo(static, ChangeMsg(operation, table, data))
  IN IF Nullish(data) THEN Threw(<<first>>)
     ELSE IF Truthy(Prop(data, "conversionId"))
          THEN Done(<<first,
                      EmitTo("conversion-" \o ToString(Prop(data, "conversionId")),
                             ChangeMsg(operation, table, data))>>)
          ELSE Done(<<first>>)

handleConversionMessageChange(operation, data) ==
  WithDerived("conversion-messages", "ConversionMessage", operation, data)

\* Faulty variant: the top-level entity also fans out to a derived topic.
MutDerivedConversionChange(operation, data) ==
  WithDerived("conversions", "Conversion", operation, data)

handleConversionChange(operation, data) ==
  Done(<<EmitTo("conversions", ChangeMsg(operation, "Conversion", data))>>)

handleConversionStepChange(operation, data) ==
  WithDerived("conversion-steps", "ConversionStep", operation, data)

\* Faulty variant: unknown channels all go to one catch-all room.
MutDefaultToUnknown(channel, operation, table, data) ==
  Done(<<EmitTo("unknown",
                [event |-> OrElse(operation, Str("UNKNOWN")), schema |-> Str("public"),
                 table |-> OrElse(table, Str("unknown")), new |-> data, old |-> Null,
                 channel |-> Str(channel)])>>)

\* The default branch of handlePgNotification.
handleUnknownChannel(channel, operation, table, data) ==
  Done(<<EmitTo(channel,
                [event |-> OrElse(operation, Str("UNKNOWN")), schema |-> Str("public"),
                 table |-> OrElse(table, Str("unknown")), new |-> data, old |-> Null,
                 channel |-> Str(channel)])>>)

\* Faulty variant: test_channel has no branch of its own and falls through to
\* the default one.
MutTestThroughDefault(channel, payload) ==
  IF Nullish(payload) THEN Threw(<<>>)
  ELSE LET operation == Prop(payload, "operation")
           table == Prop(payload, "table")
           data == Prop(payload, "data")
       IN CASE channel = "conversion_message_changes" ->
                 handleConversionMessageChange(operation, data)
            [] channel = "conversion_changes" -> handleConversionChange(operation, data)
            [] channel = "conversion_step_changes" ->
                 handleConversionStepChange(operation, data)
            [] OTHER -> handleUnknownChannel(channel, operation, table, data)

\* Destructuring undefined or null throws before the switch is reached.
handlePgNotification(channel, payload) ==
  IF Nullish(payload) THEN Threw(<<>>)
  ELSE LET operation == Prop(payload, "operation")
           table == Prop(payload, "table")
           data == Prop(payload, "data")
       IN CASE channel = "conversion_message_changes" ->
                 handleConversionMessageChange(operation, data)
            [] channel = "conversion_changes" -> handleConversionChange(operation, data)
            [] channel = "conversion_step_changes" ->
                 handleConversionStepChange(operation, data)
            [] channel = "test_channel" ->
                 Done(<<EmitAll("test_notification", [message |-> payload])>>)
            [] OTHER -> handleUnknownChannel(channel, operation, table, data)

\* Faulty variant: a payload that does not parse is handled as {}.
MutParseFallback(channel, raw) ==
  LET parsed == JSONParse(IF raw = "" THEN "{}" ELSE raw)
  IN [decoded |-> parsed.ok,
      out |-> handlePgNotification(channel, IF parsed.ok THEN parsed.val ELSE EmptyObj)]

\* The "notification" listener: JSON.parse(msg.payload || "{}"), then
\* handlePgNotification, both inside one try/catch that only logs.
onNotification(channel, raw) ==
  LET parsed == JSONParse(IF raw = "" THEN "{}" ELSE raw)
  IN IF parsed.ok
     THEN [decoded |-> TRUE, out |-> handlePgNotification(channel, parsed.val)]
     ELSE [decoded |-> FALSE, out |-> Threw(<<>>)]


\* -------------------------------------------------------------------- state
\* The pg Client as the bridge uses it: connect() opens the connection of a
\* Client once and rejects on a Client already used; query() waits for a
\* connection being opened and rejects on one that is released or broken;
\* end() resolves once the connection is released; "notification" and
\* "error" are emitted to the listeners registered on the Client.
VARIABLES
  cst,            \* per Client object: "none" (not constructed), "new",
                  \* "connecting", "connected", "ending", "closed"
  listens,        \* per Client: the channels its session has LISTENed to
  notifHandlers,  \* per Client: "notification" listeners registered
  errHandlers,    \* per Client: "error" listeners registered
  pgClient,       \* this.pgClient
  setups,         \* the setupPgNotifications() calls suspended at an await
  endWaiters,     \* the reconnectPg() and close() calls awaiting pgClient.end()
  timers,         \* pending setTimeout callbacks, per callee
  dbUp,           \* the event source is reachable
  nErrors,        \* connection-error events so far
  nOutages,       \* outages so far
  closeRequested, \* close() has been called
  closeDone,      \* close() has returned
  httpClosed,     \* this.httpServer.close() has been called
  closeResults,   \* how each close() call that returned ended, and on which Client
  received,       \* the notifications handed to the listener, in order
  emitted,        \* the emits made, in order, each with its notification's index
  sockets,        \* per socket id: "none" (not connected yet), "open", "gone"
  rooms,          \* per socket: the rooms the adapter has it in
  members,        \* per room that has members: its sockets, in the order they
                  \* joined (the order the adapter iterates a room)
  connOrder,      \* the connected sockets, in the order they connected (the
                  \* order the adapter iterates them for an emit to all)
  connectedClients, \* this.connectedClients: socket id -> its subscriptions
  lastRun,        \* the latest run of a socket handler or of the notification
                  \* listener: which, for which socket, with which channels, and
                  \* the messages it sent to sockets
  prevRun         \* the run before that

connVars ==
  <<cst, listens, notifHandlers, errHandlers, pgClient, setups, endWaiters, timers,
    closeRequested, closeDone, httpClosed, closeResults>>
envVars == <<dbUp, nErrors, nOutages>>
pipeVars == <<received, emitted>>
sockVars == <<sockets, rooms, members, connOrder, connectedClients, lastRun, prevRun>>
vars == <<connVars, envVars, pipeVars, sockVars>>

\* The sockets of one behaviour.
SocketIds == {"sock-a", "sock-b"}

ClientIds == 1..MaxClients
Live == {"connecting", "connected", "ending"}

\* The part of the state the asynchronous functions read and write; overflow
\* marks a step that would construct more than MaxClients clients.
Cur ==
  [cst |-> cst, pgClient |-> pgClient, setups |-> setups, endWaiters |-> endWaiters,
   timers |-> timers, closeDone |-> closeDone, httpClosed |-> httpClosed,
   closeResults |-> closeResults, overflow |-> FALSE]

Commit(s) ==
  /\ ~s.overflow
  /\ cst' = s.cst
  /\ pgClient' = s.pgClient
  /\ setups' = s.setups
  /\ endWaiters' = s.endWaiters
  /\ timers' = s.timers
  /\ closeDone' = s.closeDone
  /\ httpClosed' = s.httpClosed
  /\ closeResults' = s.closeResults

\* The catch block of setupPgNotifications: setTimeout(() => this.setupPgNotifications(), 5000).
ScheduleSetup(s) == [s EXCEPT !.timers.setup = @ + 1]

\* The catch block of reconnectPg: setTimeout(() => this.reconnectPg(), 5000).
ScheduleReconnect(s) == [s EXCEPT !.timers.reconnect = @ + 1]

\* setupPgNotifications() up to its first await, this.pgClient.connect(): a
\* Client connects once; connect() on a Client that has been used rejects.
setupPgNotifications(s) ==
  LET p == s.pgClient
  IN IF s.cst[p] = "new"
     THEN [s EXCEPT !.cst[p] = "connecting",
                    !.setups = Append(@, [pc |-> "connect", c |-> p, k |-> 0])]
     ELSE [s EXCEPT !.setups = Append(@, [pc |-> "rejected", c |-> p, k |-> 0])]

\* reconnectPg() after its await this.pgClient.end(): a new Client replaces
\* this.pgClient and setupPgNotifications() runs on it.
reconnectAfterEnd(s) ==
  LET free == {c \in ClientIds : s.cst[c] = "none"}
  IN IF free = {} THEN [s EXCEPT !.overflow = TRUE]
     ELSE LET n == CHOOSE c \in free : \A d \in free : c <= d
          IN setupPgNotifications([s EXCEPT !.cst[n] = "new", !.pgClient = n])

\* close() after its await of end() on Client c: this.httpServer.close(), and
\* the call returns.
closeAfterEnd(s, c) ==
  [s EXCEPT !.httpClosed = TRUE, !.closeDone = TRUE,
            !.closeResults = @ \cup {[c |-> c, how |-> "closed"]}]

\* The catch block of close(): the error is logged, and the call returns.
closeCaught(s, c) ==
  [s EXCEPT !.closeDone = TRUE, !.closeResults = @ \cup {[c |-> c, how |-> "caught"]}]

\* Faulty variant: close() does not await end(), it goes on at once.
MutEndNoAwait(s, who) ==
  LET p == s.pgClient
  IN IF who = "close"
     THEN closeAfterEnd([s EXCEPT !.cst[p] = IF @ = "closed" THEN @ ELSE "ending"], p)
     ELSE IF s.cst[p] = "closed" THEN reconnectAfterEnd(s)
          ELSE [s EXCEPT !.cst[p] = "ending",
                         !.endWaiters = Append(@, [c |-> p, who |-> who])]

\* await this.pgClient.end() as called by who: on a Client whose connection is
\* already released it resolves at once, otherwise the call waits for the
\* connection to end.
EndThen(s, who) ==
  LET p == s.pgClient
  IN IF s.cst[p] = "closed"
     THEN IF who = "reconnect" THEN reconnectAfterEnd(s) ELSE closeAfterEnd(s, p)
     ELSE [s EXCEPT !.cst[p] = "ending",
                    !.endWaiters = Append(@, [c |-> p, who |-> who])]

reconnectPg(s) == EndThen(s, "reconnect")

close(s) == EndThen(s, "close")

\* The calls of `ws` resumed in the order they began to wait.
RECURSIVE ResumeAll(_, _)
ResumeAll(s, ws) ==
  IF ws = <<>> THEN s
  ELSE ResumeAll(IF Head(ws).who = "reconnect" THEN reconnectAfterEnd(s)
                 ELSE closeAfterEnd(s, Head(ws).c),
                 Tail(ws))

\* The calls of `ws` rejected: reconnectPg schedules its retry, close() logs
\* and returns without closing the HTTP server.
RECURSIVE RejectAll(_, _)
RejectAll(s, ws) ==
  IF ws = <<>> THEN s
  ELSE RejectAll(IF Head(ws).who = "reconnect" THEN ScheduleReconnect(s)
                 ELSE closeCaught(s, Head(ws).c),
                 Tail(ws))

RECURSIVE Times(_, _)
\* reconnectPg() called once per registered "error" listener.
Times(s, n) == IF n = 0 THEN s ELSE Times(reconnectPg(s), n - 1)

WaitersOn(c) == SelectSeq(endWaiters, LAMBDA w : w.c = c)
WaitersOff(c) == SelectSeq(endWaiters, LAMBDA w : w.c # c)

RemoveAt(q, i) == SubSeq(q, 1, i - 1) \o SubSeq(q, i + 1, Len(q))


\* ------------------------------------------------------------------ sockets
\* One run of a handler: by names it ("connection", "subscribe",
\* "unsubscribe", "disconnect", "notification"), msgs are the messages it sent
\* to sockets, in order.
Run(by, sock, channels, msgs) ==
  [by |-> by, sock |-> sock, channels |-> channels, msgs |-> msgs]
NoRun == Run("none", "", <<>>, <<>>)

\* socket.emit(ev, ...): one message to the socket itself.
SocketEmit(x, ev) == [to |-> x, ev |-> ev, room |-> "", emit |-> 0]

Range(q) == {q[j] : j \in DOMAIN q}

\* Faulty variant: joining a room the socket is in takes it out.
MutJoinToggles(rs, channel) ==
  IF channel \in rs THEN rs \ {channel} ELSE rs \cup {channel}

\* socket.join(channel), socket.leave(channel), subscriptions.add(channel) and
\* subscriptions.delete(channel): sets.
Join(rs, channel) == rs \cup {channel}
Leave(rs, channel) == rs \ {channel}

RECURSIVE JoinEach(_, _)
\* channels.forEach(channel => join) on the set rs.
JoinEach(rs, channels) ==
  IF channels = <<>> THEN rs ELSE JoinEach(Join(rs, Head(channels)), Tail(channels))

RECURSIVE LeaveEach(_, _)
LeaveEach(rs, channels) ==
  IF channels = <<>> THEN rs ELSE LeaveEach(Leave(rs, Head(channels)), Tail(channels))

\* Faulty variant: a disconnected socket stays in the registry.
MutKeepRegistered(cc, x) == cc

\* this.connectedClients.delete(socket.id)
Unregister(cc, x) == [y \in DOMAIN cc \ {x} |-> cc[y]]

\* The members of every room after socket x has come to be in the rooms rs
\* and in no other: x keeps its place in a room it was in, is added last to a
\* room it joined, and is taken out of a room it left; a room left without
\* members is dropped.
Seated(ms, x, rs) ==
  LET was(r) == IF r \in DOMAIN ms THEN ms[r] ELSE <<>>
      now(r) == IF r \in rs
                THEN IF x \in Range(was(r)) THEN was(r) ELSE Append(was(r), x)
                ELSE SelectSeq(was(r), LAMBDA y : y # x)
  IN [r \in {q \in DOMAIN ms \cup rs : now(q) # <<>>} |-> now(r)]

\* Faulty variant: a broadcast reaches every connected socket.
MutRecipientsAll(e) == connOrder

\* The sockets an emit reaches, in the order the adapter goes through them:
\* for io.to(room), the room's members; for io.emit, every connected socket.
Recipients(e) ==
  IF e.all THEN connOrder
  ELSE IF e.room \in DOMAIN members THEN members[e.room] ELSE <<>>

\* The adapter's broadcast of the k-th emit: one message per recipient.
Broadcast(e, k) ==
  [j \in 1..Len(Recipients(e)) |->
     [to |-> Recipients(e)[j], ev |-> e.ev, room |-> e.room, emit |-> k]]

RECURSIVE BroadcastFrom(_, _)
\* The broadcasts of the emits log[k], log[k + 1], ..., in order.
BroadcastFrom(log, k) ==
  IF k > Len(log) THEN <<>> ELSE Broadcast(log[k].e, k) \o BroadcastFrom(log, k + 1)

\* --------------------------------------------------------------------- Init
\* The state the constructor leaves: one Client, and setupPgNotifications()
\* suspended at its await of connect(). The event source may be unreachable.
Init ==
  LET s0 == [cst |-> [c \in ClientIds |-> IF c = 1 THEN "new" ELSE "none"],
             pgClient |-> 1, setups |-> <<>>, endWaiters |-> <<>>,
             timers |-> [setup |-> 0, reconnect |-> 0],
             closeDone |-> FALSE, httpClosed |-> FALSE, closeResults |-> {},
             overflow |-> FALSE]
      s == setupPgNotifications(s0)
  IN /\ cst = s.cst
     /\ pgClient = s.pgClient
     /\ setups = s.setups
     /\ endWaiters = s.endWaiters
     /\ timers = s.timers
     /\ closeDone = s.closeDone
     /\ httpClosed = s.httpClosed
     /\ closeResults = s.closeResults
     /\ listens = [c \in ClientIds |-> {}]
     /\ notifHandlers = [c \in ClientIds |-> 0]
     /\ errHandlers = [c \in ClientIds |-> 0]
     /\ closeRequested = FALSE
     /\ dbUp \in BOOLEAN
     /\ nErrors = 0
     /\ nOutages = 0
     /\ received = <<>>
     /\ emitted = <<>>
     /\ sockets = [x \in SocketIds |-> "none"]
     /\ rooms = [x \in SocketIds |-> {}]
     /\ members = [r \in {} |-> <<>>]
     /\ connOrder = <<>>
     /\ connectedClients = [x \in {} |-> {}]
     /\ lastRun = NoRun
     /\ prevRun = NoRun

\* ------------------------------------------------------------------ actions
\* await this.pgClient.connect() settles. Resolved, the call goes on to its
\* first LISTEN on whatever this.pgClient now is; rejected (the source is
\* unreachable, or the Client was ended meanwhile), the catch block runs.
ConnectDone(i) ==
  /\ i \in DOMAIN setups
  /\ setups[i].pc = "connect"
  /\ LET c == setups[i].c
     IN /\ cst[c] \in {"connecting", "closed"}
        /\ IF cst[c] = "connecting" /\ dbUp
           THEN Commit([Cur EXCEPT !.cst[c] = "connected",
                                   !.setups[i] = [pc |-> "listen", c |-> pgClient, k |-> 1]])
           ELSE Commit(ScheduleSetup([Cur EXCEPT
                         !.cst[c] = "closed", !.setups = RemoveAt(setups, i)]))
  /\ UNCHANGED <<listens, notifHandlers, errHandlers, closeRequested, envVars, pipeVars, sockVars>>

\* connect() on a used Client rejects on the next tick; the catch block runs.
ConnectRejected(i) ==
  /\ i \in DOMAIN setups
  /\ setups[i].pc = "rejected"
  /\ Commit(ScheduleSetup([Cur EXCEPT !.setups = RemoveAt(setups, i)]))
  /\ UNCHANGED <<listens, notifHandlers, errHandlers, closeRequested, envVars, pipeVars, sockVars>>

\* await this.pgClient.query("LISTEN <k-th channel>") settles. Resolved, the
\* call goes on to the next LISTEN, or after the last one registers the
\* "notification" and "error" listeners on this.pgClient and returns;
\* rejected, the catch block runs. A query on a connecting Client waits.
ListenDone(i) ==
  /\ i \in DOMAIN setups
  /\ setups[i].pc = "listen"
  /\ LET c == setups[i].c
         k == setups[i].k
     IN /\ cst[c] # "connecting"
        /\ IF cst[c] = "connected" /\ dbUp
           THEN /\ listens' = [listens EXCEPT ![c] = @ \cup {ListenChannels[k]}]
                /\ IF k < Len(ListenChannels)
                   THEN /\ Commit([Cur EXCEPT
                             !.setups[i] = [pc |-> "listen", c |-> pgClient, k |-> k + 1]])
                        /\ UNCHANGED <<notifHandlers, errHandlers>>
                   ELSE /\ Commit([Cur EXCEPT !.setups = RemoveAt(setups, i)])
                        /\ notifHandlers' = [notifHandlers EXCEPT ![pgClient] = @ + 1]
                        /\ errHandlers' = [errHandlers EXCEPT ![pgClient] = @ + 1]
           ELSE /\ Commit(ScheduleSetup([Cur EXCEPT !.setups = RemoveAt(setups, i)]))
                /\ UNCHANGED <<listens, notifHandlers, errHandlers>>
  /\ UNCHANGED <<closeRequested, envVars, pipeVars, sockVars>>

\* A pending timer fires: setupPgNotifications() or reconnectPg() is called.
TimerFire(kind) ==
  /\ timers[kind] > 0
  /\ LET s == [Cur EXCEPT !.timers[kind] = @ - 1]
     IN Commit(IF kind = "setup" THEN setupPgNotifications(s) ELSE reconnectPg(s))
  /\ UNCHANGED <<listens, notifHandlers, errHandlers, closeRequested, envVars, pipeVars, sockVars>>

\* Client c emits "error" (its connection is open, or being released): each
\* registered "error" listener calls reconnectPg().
ErrorEvent(c) ==
  /\ nErrors < MaxErrors
  /\ cst[c] \in {"connected", "ending"}
  /\ errHandlers[c] > 0
  /\ Commit(Times(Cur, errHandlers[c]))
  /\ nErrors' = nErrors + 1
  /\ UNCHANGED <<listens, notifHandlers, errHandlers, closeRequested, dbUp, nOutages,
                 pipeVars, sockVars>>

\* The connection of c ends: every call awaiting c.end() resumes, in order.
EndDone(c) ==
  /\ cst[c] = "ending"
  /\ Commit(ResumeAll([Cur EXCEPT !.cst[c] = "closed", !.endWaiters = WaitersOff(c)],
                      WaitersOn(c)))
  /\ UNCHANGED <<listens, notifHandlers, errHandlers, closeRequested, envVars, pipeVars, sockVars>>

\* c.end() rejects: every call awaiting it runs its catch block.
EndFail(c) ==
  /\ cst[c] = "ending"
  /\ WaitersOn(c) # <<>>
  /\ Commit(RejectAll([Cur EXCEPT !.endWaiters = WaitersOff(c)], WaitersOn(c)))
  /\ UNCHANGED <<listens, notifHandlers, errHandlers, closeRequested, envVars, pipeVars, sockVars>>

\* close() is called for the first time, in whatever state the connection is.
Close ==
  /\ ~closeRequested
  /\ closeRequested' = TRUE
  /\ Commit(close(Cur))
  /\ UNCHANGED <<listens, notifHandlers, errHandlers, envVars, pipeVars, sockVars>>

\* close() is called again, while earlier calls are awaiting end() or after
\* they have returned.
CloseAgain ==
  /\ closeRequested
  /\ Len(SelectSeq(endWaiters, LAMBDA w : w.who = "close")) < MaxPendingCloses
  /\ Commit(close(Cur))
  /\ UNCHANGED <<listens, notifHandlers, errHandlers, closeRequested, envVars, pipeVars, sockVars>>

DbDown ==
  /\ dbUp
  /\ nOutages < MaxOutages
  /\ dbUp' = FALSE
  /\ nOutages' = nOutages + 1
  /\ UNCHANGED <<connVars, nErrors, pipeVars, sockVars>>

DbUp ==
  /\ ~dbUp
  /\ dbUp' = TRUE
  /\ UNCHANGED <<connVars, nErrors, nOutages, pipeVars, sockVars>>

\* Faulty variant: the emits of a notification overtake those made before.
MutLateFanout(log, rx, emits) ==
  [i \in 1..Len(emits) |-> [rx |-> rx, e |-> emits[i]]] \o log

\* The emits of notification rx, made one after the other as the handler runs.
Fanout(log, rx, emits) ==
  log \o [i \in 1..Len(emits) |-> [rx |-> rx, e |-> emits[i]]]

RECURSIVE FanoutTimes(_, _, _, _)
\* One run of the listener per registered "notification" listener.
FanoutTimes(log, rx, emits, n) ==
  IF n = 0 THEN log ELSE FanoutTimes(Fanout(log, rx, emits), rx, emits, n - 1)

\* Client c emits "notification" with channel ch and payload raw; every emit
\* of the listener is broadcast as it is made. The listener has no guard: it
\* runs for whatever the Client emits while its connection is open, also once
\* end() has been called on it and has not completed.
Deliver(c, ch, raw) ==
  /\ Len(received) < MaxEvents
  /\ cst[c] \in {"connected", "ending"}
  /\ notifHandlers[c] > 0
  /\ ch \in listens[c] \cup OtherChannels
  /\ LET r == onNotification(ch, raw)
         rx == Len(received) + 1
         log == FanoutTimes(emitted, rx, r.out.emits, notifHandlers[c])
     IN /\ received' = Append(received, [client |-> c, channel |-> ch, raw |-> raw,
                                         decoded |-> r.decoded, threw |-> r.out.threw])
        /\ emitted' = log
        /\ lastRun' = Run("notification", "", <<>>, BroadcastFrom(log, Len(emitted) + 1))
        /\ prevRun' = lastRun
  /\ UNCHANGED <<connVars, envVars, sockets, rooms, members, connOrder, connectedClients>>

\* io "connection": a socket connects. It is in the room named by its own id;
\* the handler registers it and sends "connected".
SocketConnect(x) ==
  /\ sockets[x] = "none"
  /\ sockets' = [sockets EXCEPT ![x] = "open"]
  /\ rooms' = [rooms EXCEPT ![x] = {x}]
  /\ members' = Seated(members, x, {x})
  /\ connOrder' = Append(connOrder, x)
  /\ connectedClients' =
       [y \in DOMAIN connectedClients \cup {x} |->
          IF y = x THEN {} ELSE connectedClients[y]]
  /\ lastRun' = Run("connection", x, <<>>, <<SocketEmit(x, "connected")>>)
  /\ prevRun' = lastRun
  /\ UNCHANGED <<connVars, envVars, pipeVars>>

\* socket "subscribe" with the array channels.
Subscribe(x, channels) ==
  /\ sockets[x] = "open"
  /\ rooms' = [rooms EXCEPT ![x] = JoinEach(@, channels)]
  /\ members' = Seated(members, x, JoinEach(rooms[x], channels))
  /\ connectedClients' =
       IF x \in DOMAIN connectedClients
       THEN [connectedClients EXCEPT ![x] = JoinEach(@, channels)]
       ELSE connectedClients
  /\ lastRun' = Run("subscribe", x, channels, <<SocketEmit(x, "subscription_success")>>)
  /\ prevRun' = lastRun
  /\ UNCHANGED <<connVars, envVars, pipeVars, sockets, connOrder>>

\* socket "unsubscribe" with the array channels.
Unsubscribe(x, channels) ==
  /\ sockets[x] = "open"
  /\ rooms' = [rooms EXCEPT ![x] = LeaveEach(@, channels)]
  /\ members' = Seated(members, x, LeaveEach(rooms[x], channels))
  /\ connectedClients' =
       IF x \in DOMAIN connectedClients
       THEN [connectedClients EXCEPT ![x] = LeaveEach(@, channels)]
       ELSE connectedClients
  /\ lastRun' = Run("unsubscribe", x, channels, <<SocketEmit(x, "unsubscription_success")>>)
  /\ prevRun' = lastRun
  /\ UNCHANGED <<connVars, envVars, pipeVars, sockets, connOrder>>

\* socket "ping": the handler answers "pong".
Ping(x) ==
  /\ sockets[x] = "open"
  /\ lastRun' = Run("ping", x, <<>>, <<SocketEmit(x, "pong")>>)
  /\ prevRun' = lastRun
  /\ UNCHANGED <<connVars, envVars, pipeVars, sockets, rooms, members, connOrder,
                 connectedClients>>

\* socket "disconnect": the socket has left all its rooms; the handler drops
\* it from the registry.
SocketDisconnect(x) ==
  /\ sockets[x] = "open"
  /\ sockets' = [sockets EXCEPT ![x] = "gone"]
  /\ rooms' = [rooms EXCEPT ![x] = {}]
  /\ members' = Seated(members, x, {})
  /\ connOrder' = SelectSeq(connOrder, LAMBDA y : y # x)
  /\ connectedClients' = Unregister(connectedClients, x)
  /\ lastRun' = Run("disconnect", x, <<>>, <<>>)
  /\ prevRun' = lastRun
  /\ UNCHANGED <<connVars, envVars, pipeVars>>

\* ----------------------------------------------------------- specifications
ConnNext ==
  \/ \E i \in 1..MaxClients : ConnectDone(i)
  \/ \E i \in 1..MaxClients : ConnectRejected(i)
  \/ \E i \in 1..MaxClients : ListenDone(i)
  \/ \E kind \in {"setup", "reconnect"} : TimerFire(kind)
  \/ \E c \in ClientIds : ErrorEvent(c)
  \/ \E c \in ClientIds : EndDone(c)
  \/ \E c \in ClientIds : EndFail(c)
  \/ Close
  \/ DbDown
  \/ DbUp

PipeNext ==
  \/ \E i \in 1..MaxClients : ConnectDone(i)
  \/ \E i \in 1..MaxClients : ListenDone(i)
  \/ \E c \in ClientIds, ch \in Channels, raw \in RawPayloads : Deliver(c, ch, raw)

\* The connection's life cycle, with no notification arriving and close()
\* called once at most.
ConnSpec == Init /\ [][ConnNext]_vars

\* Timers fire and awaited operations settle; the connect() of a Client that
\* was ended meanwhile may stay pending for ever.
ConnFairness ==
  /\ \A i \in 1..MaxClients : WF_vars(ConnectDone(i) /\ cst[setups[i].c] = "connecting")
  /\ \A i \in 1..MaxClients : WF_vars(ConnectRejected(i))
  /\ \A i \in 1..MaxClients : WF_vars(ListenDone(i))
  /\ \A kind \in {"setup", "reconnect"} : WF_vars(TimerFire(kind))
  /\ \A c \in ClientIds : WF_vars(EndDone(c))

FairConnSpec == ConnSpec /\ ConnFairness

\* The connection's life cycle on a source that raises no error event, with
\* close() called any number of times.
CloseNext ==
  \/ \E i \in 1..MaxClients : ConnectDone(i)
  \/ \E i \in 1..MaxClients : ConnectRejected(i)
  \/ \E i \in 1..MaxClients : ListenDone(i)
  \/ \E kind \in {"setup", "reconnect"} : TimerFire(kind)
  \/ \E c \in ClientIds : EndDone(c)
  \/ \E c \in ClientIds : EndFail(c)
  \/ Close
  \/ CloseAgain
  \/ DbDown
  \/ DbUp

CloseSpec == Init /\ [][CloseNext]_vars

\* The rooms clients ask for, and the arrays they send: one room, one room
\* named twice, and two rooms.
SubTopics == {"conversion-steps", "conversion-c1"}
ChannelArrays ==
  {<<t>> : t \in SubTopics} \cup {<<"conversion-steps", u>> : u \in SubTopics}

\* The notifications that meet the clients: step changes, with and without a
\* derived topic.
SockChannels == {"conversion_step_changes"}
SockPayloads == {P_StepUpdate, P_Delete}

\* Clients and their subscriptions, with notifications arriving on a source
\* that stays reachable.
SockNext ==
  \/ \E i \in 1..MaxClients : ConnectDone(i)
  \/ \E i \in 1..MaxClients : ListenDone(i)
  \/ \E x \in SocketIds : SocketConnect(x)
  \/ \E x \in SocketIds, channels \in ChannelArrays : Subscribe(x, channels)
  \/ \E x \in SocketIds, channels \in ChannelArrays : Unsubscribe(x, channels)
  \/ \E x \in SocketIds : Ping(x)
  \/ \E x \in SocketIds : SocketDisconnect(x)
  \/ \E c \in ClientIds, ch \in SockChannels, raw \in SockPayloads : Deliver(c, ch, raw)

\* The pipeline on a source that stays reachable and raises no error.
PipeInit == Init /\ dbUp

PipeSpec == PipeInit /\ [][PipeNext]_vars

SockSpec == PipeInit /\ [][SockNext]_vars

\* The test channel next to a pass-through channel, and clients that ask for
\* the rooms named like them.
TestChannels == {"test_channel", "custom_channel"}
TestPayloads == {P_Table, P_Empty}
TestArrays == {<<ch>> : ch \in TestChannels}

TestNext ==
  \/ \E i \in 1..MaxClients : ConnectDone(i)
  \/ \E i \in 1..MaxClients : ListenDone(i)
  \/ \E x \in SocketIds : SocketConnect(x)
  \/ \E x \in SocketIds, channels \in TestArrays : Subscribe(x, channels)
  \/ \E x \in SocketIds, channels \in TestArrays : Unsubscribe(x, channels)
  \/ \E x \in SocketIds : Ping(x)
  \/ \E x \in SocketIds : SocketDisconnect(x)
  \/ \E c \in ClientIds, ch \in TestChannels, raw \in TestPayloads : Deliver(c, ch, raw)

TestSpec == PipeInit /\ [][TestNext]_vars

\* Every step of the bridge: the connection's life cycle, close() called any
\* number of times, a notification, and the four socket handlers with the
\* connection and disconnection of a socket.
Next ==
  \/ ConnNext
  \/ CloseAgain
  \/ \E c \in ClientIds, ch \in Channels, raw \in RawPayloads : Deliver(c, ch, raw)
  \/ \E x \in SocketIds : SocketConnect(x)
  \/ \E x \in SocketIds, channels \in ChannelArrays \cup TestArrays : Subscribe(x, channels)
  \/ \E x \in SocketIds, channels \in ChannelArrays \cup TestArrays : Unsubscribe(x, channels)
  \/ \E x \in SocketIds : Ping(x)
  \/ \E x \in SocketIds : SocketDisconnect(x)

\* The whole bridge.
Spec == Init /\ [][Next]_vars


\* ------------------------------------------------------------------ readings
\* The value the listener parsed from notification r.
PayloadOf(r) == JSONParse(IF r.raw = "" THEN "{}" ELSE r.raw).val

\* Notification r decoded to a change record: its payload parsed, to a value
\* that can be destructured.
IsRecord(r) == r.decoded /\ ~Nullish(PayloadOf(r))

OperationOf(r) == Prop(PayloadOf(r), "operation")
DataOf(r) == Prop(PayloadOf(r), "data")

\* The entity data of r carries a conversionId field, whatever its value.
HasOwningId(r) ==
  /\ IsRecord(r)
  /\ DataOf(r).t = "object"
  /\ "conversionId" \in DOMAIN DataOf(r).f

OwningId(r) == Prop(DataOf(r), "conversionId")

\* The emits made for the rx-th notification, and the topics they went to.
EmitsOf(rx) == {i \in DOMAIN emitted : emitted[i].rx = rx}
TopicsOf(rx) == {emitted[i].e.room : i \in {j \in EmitsOf(rx) : ~emitted[j].e.all}}

LiveClients == {c \in ClientIds : cst[c] \in Live}

\* Listening: a connected Client with every channel registered and the
\* "notification" listener installed.
Listening ==
  \E c \in ClientIds :
    /\ cst[c] = "connected"
    /\ listens[c] = {ListenChannels[k] : k \in 1..Len(ListenChannels)}
    /\ notifHandlers[c] > 0

ReconnectWaiters == SelectSeq(endWaiters, LAMBDA w : w.who = "reconnect")

\* Connection attempts and retries in flight or scheduled.
Outstanding == timers.setup + timers.reconnect + Len(setups) + Len(ReconnectWaiters)

\* -------------------------------------------------------------------- claims
\* C1: of two notifications received in that order on the same channel, every
\* topic both are routed to gets all of the first one's broadcasts before any
\* of the second one's.
C1_OrderPreserved ==
  \A i, j \in DOMAIN emitted :
    ( /\ emitted[i].rx < emitted[j].rx
      /\ received[emitted[i].rx].channel = received[emitted[j].rx].channel
      /\ ~emitted[i].e.all /\ ~emitted[j].e.all
      /\ emitted[i].e.room = emitted[j].e.room ) => i < j

C1_Witness ==
  \E i, j \in DOMAIN emitted :
    /\ emitted[i].rx = 1 /\ emitted[j].rx = 2
    /\ received[1].channel = received[2].channel
    /\ received[1].raw # received[2].raw
    /\ ~emitted[i].e.all
    /\ emitted[i].e.room = emitted[j].e.room
    /\ Cardinality(EmitsOf(1)) = 2

\* C2: at most one connection to the event source is live (connecting,
\* connected or not yet released) in every reachable state, so a reconnect
\* never opens a connection before the prior one is released.
C2_SingleLiveConnection == Cardinality(LiveClients) <= 1

\* C3: after a drop exactly one reconnect attempt or retry timer is
\* outstanding until an attempt succeeds, and never more than one, however
\* many error events occurred.
C3_SingleOutstandingRetry ==
  /\ Outstanding <= 1
  /\ (~Listening /\ ~closeRequested) => Outstanding = 1

\* C4: a failed attempt schedules another one, and if the event source
\* becomes and stays reachable and no shutdown is requested, the connection
\* eventually is Listening.
C4_EventuallyListening ==
  /\ [][(Len(setups') < Len(setups) /\ notifHandlers' = notifHandlers)
          => timers'.setup = timers.setup + 1]_vars
  /\ (<>[]dbUp /\ []~closeRequested) => <>Listening

\* C5: once close() has completed, no connection to the event source is live
\* and no connection attempt is in flight or scheduled.
C5_ShutdownFinal ==
  (closeDone /\ httpClosed) =>
    /\ LiveClients = {}
    /\ Outstanding = 0

\* C6: an unparsable payload is dropped with no broadcast, leaves the
\* connection and its listener in place, and the next valid notification on
\* the same channel is processed and broadcast.
C6_MalformedDropped ==
  \A rx \in DOMAIN received :
    /\ ~received[rx].decoded =>
         /\ EmitsOf(rx) = {}
         /\ cst[received[rx].client] = "connected"
         /\ notifHandlers[received[rx].client] = 1
    /\ ( /\ rx > 1
         /\ ~received[rx - 1].decoded
         /\ received[rx - 1].channel = received[rx].channel
         /\ IsRecord(received[rx]) ) =>
         EmitsOf(rx) # {}

C6_Witness ==
  /\ Len(received) = 2
  /\ received[1].raw = P_Malformed
  /\ received[2].channel = received[1].channel
  /\ IsRecord(received[2])
  /\ EmitsOf(1) = {}
  /\ EmitsOf(2) # {}

\* C7: a notification on conversion_message_changes whose entity data carries
\* a conversionId k, whatever its value, is broadcast to conversion-messages
\* and to conversion-<k>.
C7_MessageTopics ==
  \A rx \in DOMAIN received :
    (received[rx].channel = "conversion_message_changes" /\ HasOwningId(received[rx])) =>
      {"conversion-messages", "conversion-" \o ToString(OwningId(received[rx]))}
        \subseteq TopicsOf(rx)

\* C8: a change record on conversion_changes is broadcast to the topic
\* conversions and to nothing else, whatever the payload carries.
C8_ConversionTopics ==
  \A rx \in DOMAIN received :
    (received[rx].channel = "conversion_changes" /\ IsRecord(received[rx])) =>
      /\ TopicsOf(rx) = {"conversions"}
      /\ Cardinality(EmitsOf(rx)) = 1
      /\ \A i \in EmitsOf(rx) : ~emitted[i].e.all

C8_Witness ==
  \E rx \in DOMAIN received :
    /\ received[rx].channel = "conversion_changes"
    /\ HasOwningId(received[rx])
    /\ Truthy(OwningId(received[rx]))
    /\ TopicsOf(rx) = {"conversions"}

\* C9: a change record on a channel that is none of the known ones is
\* broadcast to the one topic named like the channel, and its handling does
\* not throw.
C9_PassThrough ==
  \A rx \in DOMAIN received :
    (received[rx].channel \in OtherChannels /\ IsRecord(received[rx])) =>
      /\ TopicsOf(rx) = {received[rx].channel}
      /\ Cardinality(EmitsOf(rx)) = 1
      /\ \A i \in EmitsOf(rx) : ~emitted[i].e.all /\ emitted[i].e.ev = "postgres_changes"
      /\ ~received[rx].threw

C9_Witness ==
  /\ Len(received) = 2
  /\ received[1].channel = "custom_channel"
  /\ received[2].channel = "audit_events"
  /\ IsRecord(received[1]) /\ IsRecord(received[2])
  /\ TopicsOf(1) = {"custom_channel"}
  /\ TopicsOf(2) = {"audit_events"}

\* C10: a notification on conversion_step_changes with operation UPDATE whose
\* entity data carries a conversionId c makes exactly two broadcasts, to
\* conversion-steps and to conversion-<c>, both with event UPDATE, table
\* ConversionStep and new and old set to the entity data.
C10_StepUpdateEndToEnd ==
  \A rx \in DOMAIN received :
    ( /\ received[rx].channel = "conversion_step_changes"
      /\ HasOwningId(received[rx])
      /\ OperationOf(received[rx]) = Str("UPDATE") ) =>
      LET msg == [event |-> Str("UPDATE"), schema |-> Str("public"),
                  table |-> Str("ConversionStep"), new |-> DataOf(received[rx]),
                  old |-> DataOf(received[rx]), channel |-> Undefined]
          is == EmitsOf(rx)
      IN /\ Cardinality(is) = 2
         /\ \A i \in is : i + 1 \in is =>
              /\ emitted[i].e = EmitTo("conversion-steps", msg)
              /\ emitted[i + 1].e =
                   EmitTo("conversion-" \o ToString(OwningId(received[rx])), msg)


\* C11: every change-delivery event, on the known channels and on the
\* pass-through ones alike, has new = null when the operation is DELETE and
\* old = null when the operation is INSERT.
C11_NullByOperation ==
  \A i \in DOMAIN emitted :
    (emitted[i].e.ev = "postgres_changes" /\ IsRecord(received[emitted[i].rx])) =>
      /\ OperationOf(received[emitted[i].rx]) = Str("DELETE") => emitted[i].e.msg.new = Null
      /\ OperationOf(received[emitted[i].rx]) = Str("INSERT") => emitted[i].e.msg.old = Null


\* C12: a change record whose operation is missing or is none of INSERT,
\* UPDATE, DELETE is still routed, and every change-delivery event made for
\* it carries the operation UNKNOWN, on the known channels and on the
\* pass-through ones alike.
C12_UnknownOperation ==
  \A rx \in DOMAIN received :
    ( /\ IsRecord(received[rx])
      /\ OperationOf(received[rx]) \notin {Str("INSERT"), Str("UPDATE"), Str("DELETE")} ) =>
      /\ EmitsOf(rx) # {}
      /\ \A i \in EmitsOf(rx) :
           emitted[i].e.ev = "postgres_changes" => emitted[i].e.msg.event = Str("UNKNOWN")

\* C13: no topic gets more than one broadcast for one notification, also when
\* the topic derived from the owning id is the static topic itself.
C13_TopicsDeduplicated ==
  \A i, j \in DOMAIN emitted :
    ( /\ emitted[i].rx = emitted[j].rx
      /\ ~emitted[i].e.all /\ ~emitted[j].e.all
      /\ emitted[i].e.room = emitted[j].e.room ) => i = j


\* this.pgClient is Connecting (its connection is being opened, or its LISTENs
\* are being registered) or Listening.
Connecting ==
  \/ cst[pgClient] = "connecting"
  \/ \E i \in DOMAIN setups : setups[i].pc \in {"connect", "listen"} /\ setups[i].c = pgClient

ListeningOn(c) ==
  /\ cst[c] = "connected"
  /\ listens[c] = {ListenChannels[k] : k \in 1..Len(ListenChannels)}
  /\ notifHandlers[c] > 0

\* C14: setupPgNotifications() called again while this.pgClient is Connecting
\* or Listening is a no-op: it registers no channel, adds no notification
\* listener and leaves no call behind that goes on to schedule a retry.
C14_StartIdempotent ==
  [][(timers'.setup < timers.setup /\ (Connecting \/ ListeningOn(pgClient))) =>
       /\ setups' = setups
       /\ cst' = cst
       /\ listens' = listens
       /\ notifHandlers' = notifHandlers]_vars


\* C15: close() can be called in every state of the connection (being opened,
\* listening, failed with a retry pending, being released, already closed);
\* the call never rejects, and when its await of end() resolves the connection
\* it was called on is released.
C15_CloseSafe ==
  /\ closeDone <=> closeResults # {}
  /\ \A r \in closeResults :
       /\ r.how \in {"closed", "caught"}
       /\ r.how = "closed" => (cst[r.c] = "closed" /\ httpClosed)

\* Two calls: the first returned through its catch block, the second, made on
\* a listening connection, released it.
C15_Witness ==
  /\ \E r \in closeResults : r.how = "caught"
  /\ \E r \in closeResults :
       r.how = "closed" /\ listens[r.c] = {ListenChannels[k] : k \in 1..Len(ListenChannels)}


\* A step that constructs a Client, which reconnectPg() does right before it
\* starts connecting it.
Constructed == \E c \in ClientIds : cst[c] = "none" /\ cst'[c] # "none"

\* A step in which reconnectPg() is called: the call is left awaiting the
\* release of the connection or, on a Client that is closed already, goes on
\* at once to construct the new Client.
ReconnectCalled ==
  \/ Len(SelectSeq(endWaiters', LAMBDA w : w.who = "reconnect")) > Len(ReconnectWaiters)
  \/ /\ Constructed
     /\ Len(SelectSeq(endWaiters', LAMBDA w : w.who = "reconnect")) = Len(ReconnectWaiters)

\* C17: a connection error on the listening connection schedules the reconnect
\* on the delay timer, and no reconnect is started before that timer has fired:
\* reconnectPg() is called only in a step in which a reconnect timer fires,
\* never inside the error callback.
C17_ReconnectAfterDelay ==
  [][/\ (nErrors' = nErrors + 1 /\ Listening) => timers'.reconnect > timers.reconnect
     /\ ReconnectCalled => timers'.reconnect < timers.reconnect]_vars


\* The topic a notification on channel ch is broadcast to whatever its payload:
\* the entity handler's static room, or the channel's own name.
StaticTopic(ch) ==
  CASE ch = "conversion_message_changes" -> "conversion-messages"
    [] ch = "conversion_changes" -> "conversions"
    [] ch = "conversion_step_changes" -> "conversion-steps"
    [] OTHER -> ch

\* C18: no notification whose payload parses is dropped: it is broadcast at
\* least once to its channel's static or pass-through topic (to all clients on
\* test_channel), also when the payload is empty, has no data field, or is
\* the literal null.
C18_DecodedNeverDropped ==
  \A rx \in DOMAIN received :
    received[rx].decoded =>
      IF received[rx].channel = "test_channel"
      THEN EmitsOf(rx) # {}
      ELSE StaticTopic(received[rx].channel) \in TopicsOf(rx)


\* C19: channel registration is all-or-nothing. A connection that is open and
\* on which no registration is in progress has every channel registered and
\* its notification listener installed, so that an attempt whose LISTEN
\* failed leaves no partially registered connection open.
C19_RegistrationAllOrNothing ==
  \A c \in ClientIds :
    ( /\ cst[c] = "connected"
      /\ \A i \in DOMAIN setups : ~(setups[i].pc = "listen" /\ setups[i].c = c) ) =>
      ListeningOn(c)


\* The messages of msgs that carry the k-th emit to socket x.
CountTo(msgs, x, k) ==
  Cardinality({j \in DOMAIN msgs : msgs[j].to = x /\ msgs[j].emit = k})

\* C16: a subscribe for rooms the socket is in already, and an unsubscribe for
\* rooms it is not in, leave the rooms and the recorded subscriptions as they
\* are; and each emit of a notification reaches each socket that is in the
\* emit's room when the notification is processed exactly once, however often
\* it joined, and reaches no other socket.
C16_MembershipIdempotent ==
  [][/\ (lastRun'.by = "subscribe" /\ Range(lastRun'.channels) \subseteq rooms[lastRun'.sock])
          => (rooms' = rooms /\ connectedClients' = connectedClients)
     /\ (lastRun'.by = "unsubscribe" /\ Range(lastRun'.channels) \cap rooms[lastRun'.sock] = {})
          => (rooms' = rooms /\ connectedClients' = connectedClients)
     /\ Len(received') > Len(received) =>
          \A k \in {i \in DOMAIN emitted' :
                     emitted'[i].rx = Len(received') /\ ~emitted'[i].e.all} :
            \A x \in SocketIds :
              CountTo(lastRun'.msgs, x, k) =
                IF sockets[x] = "open" /\ emitted'[k].e.room \in rooms[x] THEN 1 ELSE 0]_vars

\* A socket joined conversion-steps twice, then a notification was processed:
\* it got the conversion-steps broadcast once, the other connected socket got
\* nothing.
C16_Witness ==
  /\ prevRun.by = "subscribe"
  /\ prevRun.channels = <<"conversion-steps", "conversion-steps">>
  /\ lastRun.by = "notification"
  /\ \E k \in EmitsOf(Len(received)) :
       /\ emitted[k].e.room = "conversion-steps"
       /\ CountTo(lastRun.msgs, prevRun.sock, k) = 1
  /\ \E y \in SocketIds \ {prevRun.sock} :
       /\ sockets[y] = "open"
       /\ \A j \in DOMAIN lastRun.msgs : lastRun.msgs[j].to # y


\* C20: a socket gets a postgres_changes message of a notification only if it
\* is connected and in the room of one of the notification's emits when the
\* notification is processed; a notification processed right after the socket
\* left rooms brings it nothing from those rooms, and one processed right
\* after it disconnected brings it nothing at all.
C20_OnlyMembersReceive ==
  /\ \A j \in DOMAIN lastRun.msgs :
       lastRun.msgs[j].ev = "postgres_changes" =>
         /\ sockets[lastRun.msgs[j].to] = "open"
         /\ lastRun.msgs[j].room \in rooms[lastRun.msgs[j].to]
         /\ lastRun.msgs[j].room \in TopicsOf(Len(received))
         /\ lastRun.msgs[j].emit \in EmitsOf(Len(received))
  /\ (lastRun.by = "notification" /\ prevRun.by = "unsubscribe") =>
       \A j \in DOMAIN lastRun.msgs :
         ~(lastRun.msgs[j].to = prevRun.sock /\ lastRun.msgs[j].room \in Range(prevRun.channels))
  /\ (lastRun.by = "notification" /\ prevRun.by = "disconnect") =>
       \A j \in DOMAIN lastRun.msgs : lastRun.msgs[j].to # prevRun.sock

\* A socket left conversion-c1 and stayed in conversion-steps; of the next
\* notification, routed to both, it got the conversion-steps message only,
\* while the other socket got the conversion-c1 message.
C20_Witness ==
  /\ prevRun.by = "unsubscribe"
  /\ prevRun.channels = <<"conversion-c1">>
  /\ lastRun.by = "notification"
  /\ TopicsOf(Len(received)) = {"conversion-steps", "conversion-c1"}
  /\ \E j \in DOMAIN lastRun.msgs :
       lastRun.msgs[j].to = prevRun.sock /\ lastRun.msgs[j].room = "conversion-steps"
  /\ \E j \in DOMAIN lastRun.msgs :
       lastRun.msgs[j].to # prevRun.sock /\ lastRun.msgs[j].room = "conversion-c1"


\* getStats().connectedClients: this.connectedClients.size.
ConnectionCount == Cardinality(DOMAIN connectedClients)

\* C21: the registry holds exactly the connected sockets, so that the reported
\* connection count is the number of connected sockets, and the subscriptions
\* recorded for each of them are the rooms it joined and has not left (the
\* room named by the socket's own id apart, which it is in from the start).
C21_RegistryMatchesSockets ==
  /\ DOMAIN connectedClients = {x \in SocketIds : sockets[x] = "open"}
  /\ ConnectionCount = Cardinality({x \in SocketIds : sockets[x] = "open"})
  /\ \A x \in DOMAIN connectedClients : connectedClients[x] \ {x} = rooms[x] \ {x}
  /\ \A x \in SocketIds : sockets[x] # "open" => rooms[x] = {}

\* After connects, subscribes, an unsubscribe and a disconnect: one socket is
\* gone, the other is registered with a room it still is in.
C21_Witness ==
  /\ prevRun.by = "unsubscribe"
  /\ lastRun.by = "disconnect"
  /\ ConnectionCount = 1
  /\ \E x \in DOMAIN connectedClients :
       /\ x # lastRun.sock
       /\ connectedClients[x] = {"conversion-c1"}
       /\ "conversion-c1" \in rooms[x]


\* C22: a change record on test_channel makes one emit, a test_notification
\* to all with the payload as its message and no postgres_changes to any
\* room; every connected socket gets it once, whatever rooms it is in, and
\* gets no postgres_changes message, also when it is in the room test_channel.
C22_TestNotificationToAll ==
  /\ \A rx \in DOMAIN received :
       (received[rx].channel = "test_channel" /\ IsRecord(received[rx])) =>
         /\ Cardinality(EmitsOf(rx)) = 1
         /\ TopicsOf(rx) = {}
         /\ \A i \in EmitsOf(rx) :
              emitted[i].e = EmitAll("test_notification", [message |-> PayloadOf(received[rx])])
  /\ ( /\ lastRun.by = "notification"
       /\ received[Len(received)].channel = "test_channel"
       /\ IsRecord(received[Len(received)]) ) =>
       /\ \A j \in DOMAIN lastRun.msgs : lastRun.msgs[j].ev = "test_notification"
       /\ \A x \in SocketIds :
            Cardinality({j \in DOMAIN lastRun.msgs : lastRun.msgs[j].to = x}) =
              IF sockets[x] = "open" THEN 1 ELSE 0

\* A test notification processed while one socket is in the room test_channel
\* and the other is in no room but its own: each got the test_notification.
C22_Witness ==
  /\ lastRun.by = "notification"
  /\ received[Len(received)].channel = "test_channel"
  /\ received[Len(received)].raw = P_Table
  /\ \E x, y \in SocketIds :
       /\ "test_channel" \in rooms[x]
       /\ sockets[y] = "open" /\ rooms[y] = {y}
       /\ \E j \in DOMAIN lastRun.msgs :
            lastRun.msgs[j].to = x /\ lastRun.msgs[j].ev = "test_notification"
       /\ \E j \in DOMAIN lastRun.msgs :
            lastRun.msgs[j].to = y /\ lastRun.msgs[j].ev = "test_notification"

=============================================================================
